---- MODULE Spec2Model ----
(***************************************************************************)
(* LicenseScanPro: the barcode decoder of client/src/lib/barcode-decoder.ts *)
(* (BarcodeDecoder.decodeBarcode, parseAAMVAData, formatDate), the OCR      *)
(* normalizers of the same file, the customer routes of the server over    *)
(* MemStorage, the Home page's processImages and the FileUpload widget.    *)
(*                                                                          *)
(* A JavaScript string is a sequence of one-character strings, so that      *)
(* split, match, trim, slice and startsWith are computed character by       *)
(* character as the code computes them.  A BarcodeData object is a function *)
(* whose DOMAIN is the set of keys the object holds.                        *)
(***************************************************************************)
EXTENDS Integers, Sequences, FiniteSets, TLC

VARIABLES
    \* a call on the decoder or on a normalizer
    op, arg, pc, ret,
    \* MemStorage and the response to the last request
    customers, currentCustomerId, res,
    \* the Home page: its state, the toast shown last, and the arguments,
    \* locals and position of the processImages call, and the calls of that
    \* run on setProcessingStep and setShowCustomerForm, in program order
    scanMode, isProcessing, processingStep, processingProgress, extractedData,
    profilePhoto, signature, showCustomerForm, toast, frame, hpc, stepLog,
    \* the FileUpload widget: its state and the previews being read
    frontImage, backImage, frontPreview, backPreview, error, previews,
    \* the useCamera hook: its state and refs, the tracks that run, the
    \* startCamera calls in flight, the restart timers, and the call made last
    isActive, cameraError, currentDeviceId, availableDevices, streamRef, srcObject,
    tracks, starts, restarts, lastCall,
    \* the BarcodeCamera component: its state and refs, the intervals that
    \* run, the decodeBarcode calls in flight, what onBarcodeDetected was
    \* called with, whether it is closed, and the handler called last
    isScanning, scanStatus, lastError, frozenFrame, detectedBarcodes,
    selectedBarcodeIndex, scanIntervalRef, processingRef, intervals, decodes,
    delivered, closed, lastHandler,
    \* the CameraCapture component: its state, the countdown timers that run
    \* with the captureMode their callback closed over, and the images that
    \* were handed on
    cameraCapture, countdowns, forwarded

callVars == <<op, arg, pc, ret>>

storageVars == <<customers, currentCustomerId, res>>

\* the state of the server and of the pages, which a call on the decoder
\* leaves alone
homeVars ==
    <<scanMode, isProcessing, processingStep, processingProgress, extractedData,
      profilePhoto, signature, showCustomerForm, toast, frame, hpc, stepLog>>

uploadVars == <<frontImage, backImage, frontPreview, backPreview, error, previews>>

cameraVars ==
    <<isActive, cameraError, currentDeviceId, availableDevices, streamRef, srcObject,
      tracks, starts, restarts, lastCall>>

scannerVars ==
    <<isScanning, scanStatus, lastError, frozenFrame, detectedBarcodes,
      selectedBarcodeIndex, scanIntervalRef, processingRef, intervals, decodes,
      delivered, closed, lastHandler>>

captureVars == <<cameraCapture, countdowns, forwarded>>

appVars == <<storageVars, homeVars, uploadVars, cameraVars, scannerVars, captureVars>>

vars == <<callVars, appVars>>

\* null and undefined, where the value that may be missing is an object
null == [null |-> TRUE]

\* null, where the value that may be missing is an image: a data URL, which
\* is never the empty string
noImage == <<>>

----------------------------------------------------------------------------
(* Characters *)

LF == "\n"
CR == "\r"
SP == " "
DASH == "-"

Upper == {"A", "B", "C", "D", "E", "F", "G", "H", "I", "J", "K", "L", "M",
          "N", "O", "P", "Q", "R", "S", "T", "U", "V", "W", "X", "Y", "Z"}

\* the characters the regular expression's `.` does not match
LineTerminators == {LF, CR}

\* the characters String.prototype.trim removes
WhiteSpace == {SP, LF, CR}

----------------------------------------------------------------------------
(* String primitives of the JavaScript runtime *)

Min(a, b) == IF a < b THEN a ELSE b

\* s.slice(a, b) for 0 <= a, b
slice(s, a, b) == SubSeq(s, a + 1, Min(b, Len(s)))

\* s.startsWith(p)
startsWith(s, p) == Len(s) >= Len(p) /\ SubSeq(s, 1, Len(p)) = p

RECURSIVE trimStart(_)
trimStart(s) ==
    IF s # <<>> /\ Head(s) \in WhiteSpace THEN trimStart(Tail(s)) ELSE s

RECURSIVE trimEnd(_)
trimEnd(s) ==
    IF s # <<>> /\ s[Len(s)] \in WhiteSpace
    THEN trimEnd(SubSeq(s, 1, Len(s) - 1))
    ELSE s

\* s.trim()
trim(s) == trimEnd(trimStart(s))

\* s.split('\n'): the pieces between the line feeds, empty pieces kept
RECURSIVE split(_)
split(s) ==
    IF \A i \in 1..Len(s) : s[i] # LF
    THEN <<s>>
    ELSE LET i == CHOOSE k \in 1..Len(s) :
                      s[k] = LF /\ \A j \in 1..(k - 1) : s[j] # LF
         IN  <<SubSeq(s, 1, i - 1)>> \o split(SubSeq(s, i + 1, Len(s)))

----------------------------------------------------------------------------
(* BarcodeDecoder *)

cDAC == <<"D", "A", "C">>
cDCS == <<"D", "C", "S">>
cDAD == <<"D", "A", "D">>
cDBB == <<"D", "B", "B">>
cDAQ == <<"D", "A", "Q">>
cDBA == <<"D", "B", "A">>
cDAG == <<"D", "A", "G">>
cDAI == <<"D", "A", "I">>
cDAJ == <<"D", "A", "J">>
cDAK == <<"D", "A", "K">>

fieldMapping ==
    (cDAC :> "firstName") @@ (cDCS :> "lastName") @@ (cDAD :> "middleName") @@
    (cDBB :> "dateOfBirth") @@ (cDAQ :> "licenseNumber") @@
    (cDBA :> "expirationDate") @@ (cDAG :> "address") @@ (cDAI :> "city") @@
    (cDAJ :> "state") @@ (cDAK :> "zipCode")

\* obj[key] = value
Put(obj, key, value) ==
    [k \in DOMAIN obj \cup {key} |-> IF k = key THEN value ELSE obj[k]]

\* a property that is present and not the empty string
truthy(obj, key) == key \in DOMAIN obj /\ obj[key] # <<>>

formatDateSwapped(dateString) ==
    IF Len(dateString) = 8
    THEN IF startsWith(dateString, <<"1", "9">>) \/ startsWith(dateString, <<"2", "0">>)
         THEN slice(dateString, 4, 8) \o <<DASH>> \o slice(dateString, 0, 2)
                  \o <<DASH>> \o slice(dateString, 2, 4)
         ELSE slice(dateString, 0, 4) \o <<DASH>> \o slice(dateString, 4, 6)
                  \o <<DASH>> \o slice(dateString, 6, 8)
    ELSE dateString

formatDateAtLeast8(dateString) ==
    IF Len(dateString) >= 8
    THEN IF startsWith(dateString, <<"1", "9">>) \/ startsWith(dateString, <<"2", "0">>)
         THEN slice(dateString, 0, 4) \o <<DASH>> \o slice(dateString, 4, 6)
                  \o <<DASH>> \o slice(dateString, 6, 8)
         ELSE slice(dateString, 4, 8) \o <<DASH>> \o slice(dateString, 0, 2)
                  \o <<DASH>> \o slice(dateString, 2, 4)
    ELSE dateString

formatDate(dateString) ==
    IF Len(dateString) = 8
    THEN IF startsWith(dateString, <<"1", "9">>) \/ startsWith(dateString, <<"2", "0">>)
         THEN slice(dateString, 0, 4) \o <<DASH>> \o slice(dateString, 4, 6)
                  \o <<DASH>> \o slice(dateString, 6, 8)
         ELSE slice(dateString, 4, 8) \o <<DASH>> \o slice(dateString, 0, 2)
                  \o <<DASH>> \o slice(dateString, 2, 4)
    ELSE dateString

\* line.match(/^([A-Z]{3})(.+)$/): without the m flag `$` is the end of the
\* line and `.` matches no line terminator, so the value is the whole rest
matches(line) ==
    /\ Len(line) >= 4
    /\ \A i \in 1..3 : line[i] \in Upper
    /\ \A i \in 4..Len(line) : line[i] \notin LineTerminators

\* the loop body without its `if (match)`: destructuring null throws
parseLineUnguarded(data, line) ==
    IF matches(line)
    THEN LET code  == SubSeq(line, 1, 3)
             value == SubSeq(line, 4, Len(line))
         IN  IF code \in DOMAIN fieldMapping
             THEN Put(data, fieldMapping[code], trim(value))
             ELSE data
    ELSE Put(data, "threw", <<"T", "y", "p", "e", "E", "r", "r", "o", "r">>)

parseLineNoTrim(data, line) ==
    IF matches(line)
    THEN LET code  == SubSeq(line, 1, 3)
             value == SubSeq(line, 4, Len(line))
         IN  IF code \in DOMAIN fieldMapping
             THEN Put(data, fieldMapping[code], value)
             ELSE data
    ELSE data

\* one iteration of the loop over the lines
parseLine(data, line) ==
    IF matches(line)
    THEN LET code  == SubSeq(line, 1, 3)
             value == SubSeq(line, 4, Len(line))
         IN  IF code \in DOMAIN fieldMapping
             THEN Put(data, fieldMapping[code], trim(value))
             ELSE data
    ELSE data

RECURSIVE parseLines(_, _)
parseLines(data, lines) ==
    IF lines = <<>> THEN data
    ELSE parseLines(parseLine(data, Head(lines)), Tail(lines))

formatField(data, key) ==
    IF truthy(data, key) THEN Put(data, key, formatDate(data[key])) ELSE data

parseAAMVAData(rawData) ==
    formatField(formatField(parseLines(<<>>, split(rawData)), "dateOfBirth"),
                "expirationDate")


\* the literal object of lines 46-57, its strings spelled character by character
mockData ==
    [firstName      |-> <<"J", "o", "h", "n">>,
     lastName       |-> <<"D", "o", "e">>,
     middleName     |-> <<"M", "i", "c", "h", "a", "e", "l">>,
     dateOfBirth    |-> <<"1", "9", "8", "5", "-", "0", "6", "-", "1", "5">>,
     licenseNumber  |-> <<"D", "1", "2", "3", "4", "5", "6", "7", "8">>,
     expirationDate |-> <<"2", "0", "2", "7", "-", "0", "6", "-", "1", "5">>,
     address        |-> <<"1", "2", "3", " ", "M", "a", "i", "n", " ",
                          "S", "t", "r", "e", "e", "t">>,
     city           |-> <<"S", "a", "n", " ", "F", "r", "a", "n", "c", "i", "s", "c", "o">>,
     state          |-> <<"C", "A">>,
     zipCode        |-> <<"9", "4", "1", "0", "5">>]

decodeBarcodeUntagged(imageData) ==
    [success |-> TRUE, data |-> mockData, confidence |-> 92,
     error |-> <<"o", "k">>]

\* the value decodeBarcode resolves with once its timer has fired; the
\* confidence is in hundredths (0.92).  Nothing inside the try block can
\* throw, so the catch branch of lines 64-69 is never taken.
decodeBarcode(imageData) ==
    [success |-> TRUE, data |-> mockData, confidence |-> 92]

----------------------------------------------------------------------------
(* OCRService.postProcessData and its normalizers *)

SLASH == "/"

LowerSeq == <<"a", "b", "c", "d", "e", "f", "g", "h", "i", "j", "k", "l", "m",
              "n", "o", "p", "q", "r", "s", "t", "u", "v", "w", "x", "y", "z">>

UpperSeq == <<"A", "B", "C", "D", "E", "F", "G", "H", "I", "J", "K", "L", "M",
              "N", "O", "P", "Q", "R", "S", "T", "U", "V", "W", "X", "Y", "Z">>

DigitSeq == <<"0", "1", "2", "3", "4", "5", "6", "7", "8", "9">>

IsDigit(c) == \E i \in 1..10 : DigitSeq[i] = c

\* c.toUpperCase() and c.toLowerCase() of one character
upperChar(c) ==
    IF \E i \in 1..26 : LowerSeq[i] = c
    THEN UpperSeq[CHOOSE i \in 1..26 : LowerSeq[i] = c]
    ELSE c

lowerChar(c) ==
    IF \E i \in 1..26 : UpperSeq[i] = c
    THEN LowerSeq[CHOOSE i \in 1..26 : UpperSeq[i] = c]
    ELSE c

toUpperCase(s) == [i \in 1..Len(s) |-> upperChar(s[i])]

toLowerCase(s) == [i \in 1..Len(s) |-> lowerChar(s[i])]

\* s.replace(/\s+/g, '')
IsNotSpace(c) == c \notin WhiteSpace

removeWhiteSpace(s) == SelectSeq(s, IsNotSpace)

\* s.replace(/\D/g, '')
removeNonDigits(s) == SelectSeq(s, IsDigit)

\* name.split(' '): the pieces between the single spaces, empty pieces kept
RECURSIVE splitSpaces(_)
splitSpaces(s) ==
    IF \A i \in 1..Len(s) : s[i] # SP
    THEN <<s>>
    ELSE LET i == CHOOSE k \in 1..Len(s) :
                      s[k] = SP /\ \A j \in 1..(k - 1) : s[j] # SP
         IN  <<SubSeq(s, 1, i - 1)>> \o splitSpaces(SubSeq(s, i + 1, Len(s)))

\* part.charAt(0).toUpperCase() + part.slice(1).toLowerCase()
capitalize(part) ==
    IF part = <<>> THEN part
    ELSE <<upperChar(part[1])>> \o toLowerCase(SubSeq(part, 2, Len(part)))

\* parts.join(' ')
RECURSIVE joinSpaces(_)
joinSpaces(parts) ==
    IF Len(parts) = 0 THEN <<>>
    ELSE IF Len(parts) = 1 THEN parts[1]
    ELSE parts[1] \o <<SP>> \o joinSpaces(Tail(parts))

cleanName(name) ==
    LET parts == splitSpaces(name)
    IN  trim(joinSpaces([i \in 1..Len(parts) |-> capitalize(parts[i])]))

cleanLicenseNumber(licenseNumber) == toUpperCase(removeWhiteSpace(licenseNumber))

normalizeGenderNoUpper(gender) ==
    LET g1 == IF startsWith(gender, <<"M">>) THEN <<"M">> ELSE toUpperCase(gender)
    IN  IF startsWith(gender, <<"F">>) THEN <<"F">> ELSE g1

\* lines 273-276: uppercase, then 'M...' becomes 'M', then 'F...' becomes 'F'
normalizeGender(gender) ==
    LET g0 == toUpperCase(gender)
        g1 == IF startsWith(g0, <<"M">>) THEN <<"M">> ELSE g0
    IN  IF startsWith(g1, <<"F">>) THEN <<"F">> ELSE g1

\* dateString.replace(/[^\d\/\-]/g, '')
IsDateChar(c) == IsDigit(c) \/ c = SLASH \/ c = DASH

\* a test such as /^\d{2}\/\d{2}\/\d{4}$/: in `shape` "d" stands for \d and
\* any other character for itself
matchesShape(s, shape) ==
    /\ Len(s) = Len(shape)
    /\ \A i \in 1..Len(s) : IF shape[i] = "d" THEN IsDigit(s[i]) ELSE s[i] = shape[i]

digitValue(c) == (CHOOSE i \in 1..10 : DigitSeq[i] = c) - 1

\* parseInt of a string of digits
RECURSIVE parseInt(_)
parseInt(s) ==
    IF s = <<>> THEN 0
    ELSE 10 * parseInt(SubSeq(s, 1, Len(s) - 1)) + digitValue(s[Len(s)])

\* String(n) for n >= 0
RECURSIVE toString(_)
toString(n) ==
    IF n < 10 THEN <<DigitSeq[n + 1]>>
    ELSE toString(n \div 10) \o <<DigitSeq[(n % 10) + 1]>>

\* String(n).padStart(2, '0')
padStart2(n) == IF n < 10 THEN <<"0">> \o toString(n) ELSE toString(n)

IsLeapYear(y) == (y % 4 = 0 /\ y % 100 # 0) \/ y % 400 = 0

\* the days of month index m (0 = January) of year y
DaysInMonth(y, m) ==
    IF m = 1 THEN (IF IsLeapYear(y) THEN 29 ELSE 28)
    ELSE IF m \in {3, 5, 8, 10} THEN 30 ELSE 31

\* the calendar date of day number d >= 0 counted in month m of year y, where
\* day 0 is the last day of the month before and days past the end of the
\* month run on into the months after
RECURSIVE normalizeDay(_, _, _)
normalizeDay(y, m, d) ==
    IF d = 0
    THEN LET py == IF m = 0 THEN y - 1 ELSE y
             pm == IF m = 0 THEN 11 ELSE m - 1
         IN  [year |-> py, month |-> pm, date |-> DaysInMonth(py, pm)]
    ELSE IF d > DaysInMonth(y, m)
    THEN normalizeDay(IF m = 11 THEN y + 1 ELSE y, IF m = 11 THEN 0 ELSE m + 1,
                      d - DaysInMonth(y, m))
    ELSE [year |-> y, month |-> m, date |-> d]

\* new Date(year, monthIndex, day) read back with getFullYear, getMonth and
\* getDate: a year 0..99 is 1900 + year, and month and day overflow into the
\* next (or previous) year and month
newDate(year, monthIndex, day) ==
    LET y1 == IF year <= 99 THEN 1900 + year ELSE year
        y2 == y1 + (monthIndex \div 12)
        m2 == monthIndex % 12
    IN  normalizeDay(y2, m2, day)

formatYMD(date) ==
    toString(date.year) \o <<DASH>> \o padStart2(date.month + 1) \o <<DASH>>
        \o padStart2(date.date)

sMDYslash == <<"d", "d", "/", "d", "d", "/", "d", "d", "d", "d">>
sMDYdash == <<"d", "d", "-", "d", "d", "-", "d", "d", "d", "d">>
sYMDdash == <<"d", "d", "d", "d", "-", "d", "d", "-", "d", "d">>
sYMDslash == <<"d", "d", "d", "d", "/", "d", "d", "/", "d", "d">>

\* OCRService.formatDate
ocrFormatDate(dateString) ==
    LET cleaned == SelectSeq(dateString, IsDateChar)
    IN  IF matchesShape(cleaned, sMDYslash) \/ matchesShape(cleaned, sMDYdash)
        THEN formatYMD(newDate(parseInt(SubSeq(cleaned, 7, 10)),
                               parseInt(SubSeq(cleaned, 1, 2)) - 1,
                               parseInt(SubSeq(cleaned, 4, 5))))
        ELSE IF matchesShape(cleaned, sYMDdash) THEN cleaned
        ELSE IF matchesShape(cleaned, sYMDslash)
        THEN [i \in 1..Len(cleaned) |-> IF cleaned[i] = SLASH THEN DASH ELSE cleaned[i]]
        ELSE dateString

NameFields == {"firstName", "lastName", "middleName"}

OcrDateFields == {"dateOfBirth", "expirationDate"}

\* the fields postProcessData rewrites
PostProcessedFields ==
    NameFields \cup OcrDateFields \cup {"licenseNumber", "state", "zipCode", "gender", "eyeColor"}

postProcessField(key, value) ==
    IF value = <<>> THEN value
    ELSE IF key \in NameFields THEN cleanName(value)
    ELSE IF key \in OcrDateFields THEN ocrFormatDate(value)
    ELSE IF key = "licenseNumber" THEN cleanLicenseNumber(value)
    ELSE IF key = "state" THEN toUpperCase(value)
    ELSE IF key = "zipCode" THEN removeNonDigits(value)
    ELSE IF key = "gender" THEN normalizeGender(value)
    ELSE IF key = "eyeColor" THEN toUpperCase(value)
    ELSE value

\* postProcessData(data), which rewrites data in place: the object afterwards
postProcessData(data) == [k \in DOMAIN data |-> postProcessField(k, data[k])]

----------------------------------------------------------------------------
(* shared/schema.ts, server/storage.ts and the customer routes *)

\* the columns a request body may hold: the unique one and one of the
\* others (lastName, dateOfBirth, ... are handled as firstName is)
CustomerFields == {"licenseNumber", "firstName"}

\* insertCustomerSchema.parse(body) succeeds: the notNull columns are there
validInsert(body) == CustomerFields \subseteq DOMAIN body

\* MemStorage.getCustomerByLicenseNumber: the ids of the customers found
getCustomerByLicenseNumber(licenseNumber) ==
    {id \in DOMAIN customers : customers[id].licenseNumber = licenseNumber}

\* createCustomer storing the customer without the id it was given
createCustomerNoId(insertCustomer) ==
    customers @@ (currentCustomerId :> (("id" :> 0) @@ insertCustomer))

\* MemStorage.createCustomer: the map afterwards; { ...insertCustomer, id }
createCustomer(insertCustomer) ==
    customers @@ (currentCustomerId :> (("id" :> currentCustomerId) @@ insertCustomer))

\* MemStorage.updateCustomer for an id that exists: { ...existing, ...updateData }
updateCustomer(id, updateData) ==
    [customers EXCEPT ![id] = updateData @@ customers[id]]

StorageInit ==
    /\ customers = <<>>
    /\ currentCustomerId = 1
    /\ res = null

----------------------------------------------------------------------------
(* pages/home.tsx and lib/face-detection.ts *)

\* the region that extractRegion cuts out of the image
extractRegion(imageData, box) == <<box>> \o imageData

\* what detectAndCropFace and extractSignature resolve with: the region
\* when the image loads (img.onload), a failure when it does not
\* (img.onerror) or when there is no canvas context
FaceDetectionResults(imageData, box) ==
    { [success |-> TRUE, croppedImage |-> extractRegion(imageData, box), confidence |-> 95],
      [success |-> FALSE, error |-> "Failed to load image"],
      [success |-> FALSE, error |-> "Failed to create canvas context"] }

\* barcodeData?.state || 'CA'
licenseStateOf(barcodeData) ==
    IF barcodeData # null /\ truthy(barcodeData, "state")
    THEN barcodeData.state
    ELSE <<"C", "A">>

\* the useState initial values of Home, before processImages is called with
\* the front and the back image
HomeInit(front, back) ==
    /\ scanMode = "upload"
    /\ isProcessing = FALSE
    /\ processingStep = "idle"
    /\ processingProgress = 0
    /\ extractedData = null
    /\ profilePhoto = noImage
    /\ signature = noImage
    /\ showCustomerForm = FALSE
    /\ toast = "none"
    /\ frame = [frontImage |-> front, backImage |-> back,
                barcodeData |-> null, extractedPhoto |-> noImage,
                licenseState |-> <<>>]
    /\ hpc = "call"
    /\ stepLog = <<>>

----------------------------------------------------------------------------
(* components/file-upload.tsx *)

validTypes == {"image/jpeg", "image/jpg", "image/png", "application/pdf"}

maxSize == 10 * 1024 * 1024

validateFileAnySize(file) == file.type \in validTypes

\* what validateFile returns
validateFile(file) == file.type \in validTypes /\ ~(file.size > maxSize)

\* what validateFile leaves in `error`
validateFileError(file) ==
    IF file.type \notin validTypes
    THEN [message |-> "Invalid file type. Please upload JPEG, PNG, or PDF files."]
    ELSE IF file.size > maxSize
    THEN [message |-> "File size too large. Maximum size is 10MB."]
    ELSE null

\* the data URL that createPreview resolves with
createPreview(file) == [dataURL |-> file]

UploadInit ==
    /\ frontImage = null
    /\ backImage = null
    /\ frontPreview = null
    /\ backPreview = null
    /\ error = null
    /\ previews = {}

----------------------------------------------------------------------------
(* hooks/use-camera.ts.  A media stream is a positive number and 0 is the   *)
(* null of streamRef and of srcObject; a device id is a string and "" is    *)
(* the null of currentDeviceId.                                             *)

\* the useState and useRef initial values
CameraInit ==
    /\ isActive = FALSE
    /\ cameraError = null
    /\ currentDeviceId = ""
    /\ availableDevices = <<>>
    /\ streamRef = 0
    /\ srcObject = 0
    /\ tracks = {}
    /\ starts = <<>>
    /\ restarts = {}
    /\ lastCall = "none"

\* the device ids of a list of devices
deviceIds(devices) == {devices[i] : i \in 1..Len(devices)}

\* lines 37-63: the device startCamera asks for.  Which device is the
\* preferred one, and whether the selected one is a virtual camera with a
\* FaceTime camera beside it, is read off the labels
selectedDeviceIds(captured, videoDevices) ==
    LET auto == IF captured = "" /\ Len(videoDevices) > 0
                THEN deviceIds(videoDevices)
                ELSE {captured}
    IN  auto \cup (IF Len(videoDevices) > 1 THEN deviceIds(videoDevices) ELSE {})

\* lines 163-165: the device after the current one
nextDevice(devices, current) ==
    LET found == {i \in 1..Len(devices) : devices[i] = current}
        \* findIndex counts from 0
        currentIndex == IF found = {} THEN -1
                        ELSE (CHOOSE i \in found : \A j \in found : i <= j) - 1
        nextIndex == (currentIndex + 1) % Len(devices)
    IN  devices[nextIndex + 1]

----------------------------------------------------------------------------
(* components/barcode-camera.tsx.  An interval id is a positive number and *)
(* 0 is the null of scanIntervalRef.                                       *)

\* the useState and useRef initial values
ScannerInit ==
    /\ isScanning = FALSE
    /\ scanStatus = "idle"
    /\ lastError = null
    /\ frozenFrame = noImage
    /\ detectedBarcodes = <<>>
    /\ selectedBarcodeIndex = 0
    /\ scanIntervalRef = 0
    /\ processingRef = FALSE
    /\ intervals = {}
    /\ decodes = <<>>
    /\ delivered = <<>>
    /\ closed = FALSE
    /\ lastHandler = "none"

\* what convertTo8ColorGrayscale may return: the converted image when the
\* temporary image is complete at once, the image itself when it is not
convertTo8ColorGrayscale(imageData) == {<<"8">> \o imageData, imageData}

\* '23282K026020680101'
rawBarcode ==
    <<"2", "3", "2", "8", "2", "K", "0", "2", "6", "0", "2", "0", "6", "8", "0", "1", "0", "1">>

\* s.includes(sub)
includes(s, sub) ==
    \E i \in 1..(Len(s) - Len(sub) + 1) : SubSeq(s, i, i + Len(sub) - 1) = sub

\* line 118: a barcode was detected
detectedNever(result) == FALSE

detected(result) ==
    result.success \/ ("error" \in DOMAIN result /\ includes(result.error, rawBarcode))

\* lines 132-136; the confidence is in hundredths
barcodeEntry(result) ==
    [data |-> IF "data" \in DOMAIN result THEN result.data ELSE <<>>,
     rawData |-> rawBarcode,
     confidence |-> IF "confidence" \in DOMAIN result /\ result.confidence # 0
                    THEN result.confidence ELSE 80]

\* lines 173-183: what confirmBarcodeSelection hands to onBarcodeDetected
confirmedData(selectedBarcode) ==
    IF DOMAIN selectedBarcode.data # {}
    THEN selectedBarcode.data
    ELSE [licenseNumber |-> selectedBarcode.rawData]

----------------------------------------------------------------------------
(* components/camera-capture.tsx: the CameraCapture component.  The file   *)
(* holds the component twice; the second one adds the countdown and hands  *)
(* the images to the manual crop tool instead of onCapture.                *)

\* the useState initial values; a countdown of 0 is the null countdown
CaptureInit ==
    /\ cameraCapture = [captureMode |-> "front", frontImage |-> noImage,
                        backImage |-> noImage, showPreview |-> FALSE,
                        showManualCrop |-> FALSE, countdown |-> 0,
                        isCountingDown |-> FALSE, autoShutterEnabled |-> TRUE]
    /\ countdowns = {}
    /\ forwarded = <<>>

\* a capture that shows the preview whatever side was taken
afterCaptureAlwaysPreview(c, mode, imageData) ==
    IF mode = "front"
    THEN [c EXCEPT !.frontImage = imageData, !.captureMode = "back", !.showPreview = TRUE]
    ELSE [c EXCEPT !.backImage = imageData, !.showPreview = TRUE]

\* lines 30-36, 240-246 and 519-525: the state after a frame was captured
\* by a handler that sees `mode` as the captureMode
afterCapture(c, mode, imageData) ==
    IF mode = "front"
    THEN [c EXCEPT !.frontImage = imageData, !.captureMode = "back"]
    ELSE [c EXCEPT !.backImage = imageData, !.showPreview = TRUE]

\* handleRetake
retaken(c) ==
    IF c.captureMode = "front"
    THEN [c EXCEPT !.frontImage = noImage, !.showPreview = FALSE]
    ELSE [c EXCEPT !.backImage = noImage, !.showPreview = FALSE]

\* frontImage && backImage
bothImages(c) == c.frontImage # noImage /\ c.backImage # noImage

----------------------------------------------------------------------------
(* Inputs *)

MaxTokens == 3

cDL == <<"D", "L">>
\* the legacy last-name code of the AAMVA standard, which fieldMapping lacks
cDCT == <<"D", "C", "T">>
vAB1 == <<"A", "B", "1">>
vYMD == <<"1", "9", "8", "5", "0", "6", "1", "5">>
vMDY == <<"0", "6", "1", "5", "1", "9", "8", "5">>
vABCDEFGH == <<"A", "B", "C", "D", "E", "F", "G", "H">>

\* the pieces payloads are assembled from: field codes, a subfile header,
\* separators and values
PayloadTokens ==
    {cDAQ, cDCS, cDBB, cDL, cDCT, <<LF>>, <<CR>>, <<SP>>, vAB1, vYMD, vMDY, vABCDEFGH}

MaxDateTokens == 4

\* the pieces date strings are assembled from
DateTokens ==
    {<<"1", "9">>, <<"2", "0">>, <<"0", "6">>, <<"1", "5">>, <<"8">>, <<"A", "B">>}

RECURSIVE Concats(_, _)
Concats(tokens, n) ==
    IF n = 0 THEN {<<>>}
    ELSE LET shorter == Concats(tokens, n - 1)
         IN  shorter \cup {s \o t : s \in shorter, t \in tokens}

\* 'DLDAQD12345678DCSDOEDACJOHNDBB19850615DBA20270615'
ExampleSequential ==
    cDL \o cDAQ \o <<"D", "1", "2", "3", "4", "5", "6", "7", "8">>
        \o cDCS \o <<"D", "O", "E">> \o cDAC \o <<"J", "O", "H", "N">>
        \o cDBB \o vYMD \o cDBA \o <<"2", "0", "2", "7", "0", "6", "1", "5">>

\* 'DAQABC123'
ExampleSingle == cDAQ \o <<"A", "B", "C", "1", "2", "3">>

\* 'DAQD-123 45'
ExampleHyphen == cDAQ \o <<"D", "-", "1", "2", "3", " ", "4", "5">>

\* 'DAQAB1\nDAQABCDEFGH': the same code on two lines
ExampleDuplicate == cDAQ \o vAB1 \o <<LF>> \o cDAQ \o vABCDEFGH

\* 'DAQAB1\r\nDCSABCDEFGH': two lines that end in CR+LF and in nothing
ExampleCRLF == cDAQ \o vAB1 \o <<CR, LF>> \o cDCS \o vABCDEFGH

MaxNameTokens == 3

\* the pieces the values handed to postProcessData are assembled from
NameTokens ==
    {<<"m", "a">>, <<"F">>, <<"j", "o">>, <<"X">>, <<SP>>, <<LF>>, <<"-">>, <<"9">>}

\* dates as an OCR reply writes them: MM/DD/YYYY, MM-DD-YYYY, YYYY-MM-DD and
\* YYYY/MM/DD, in range and out of range, bare or after a stray letter
OcrDates ==
    LET MM == {<<"0", "0">>, <<"0", "2">>, <<"1", "2">>, <<"1", "3">>}
        DD == {<<"0", "0">>, <<"2", "9">>, <<"3", "1">>}
        YYYY == {<<"0", "0", "9", "9">>, <<"0", "1", "0", "0">>,
                 <<"1", "9", "0", "0">>, <<"2", "0", "2", "0">>,
                 <<"2", "0", "2", "1">>, <<"9", "9", "9", "9">>}
        Sep == {<<SLASH>>, <<DASH>>}
        Pre == {<<>>, <<"x">>}
    IN  {p \o m \o x \o d \o x \o y : p \in Pre, m \in MM, d \in DD, y \in YYYY, x \in Sep}
        \cup {p \o y \o x \o m \o x \o d : p \in Pre, m \in MM, d \in DD, y \in YYYY, x \in Sep}

Inputs ==
    Concats(PayloadTokens, MaxTokens) \cup Concats(DateTokens, MaxDateTokens)
        \cup Concats(NameTokens, MaxNameTokens) \cup OcrDates
        \cup {ExampleSequential, ExampleSingle, ExampleHyphen, ExampleDuplicate,
              ExampleCRLF}

----------------------------------------------------------------------------
(* The calls on the exported decoder: a string is at hand (Init) and one of *)
(* the decoder's functions is called on it.                                 *)

Init ==
    /\ arg \in Inputs
    /\ op = "none"
    /\ pc = "idle"
    /\ ret = <<>>
    /\ StorageInit
    /\ HomeInit(noImage, noImage)
    /\ UploadInit
    /\ CameraInit
    /\ ScannerInit
    /\ CaptureInit

ParseAAMVAData ==
    /\ pc = "idle"
    /\ op' = "parseAAMVAData"
    /\ ret' = parseAAMVAData(arg)
    /\ pc' = "return"
    /\ UNCHANGED arg
    /\ UNCHANGED appVars

FormatDate ==
    /\ pc = "idle"
    /\ op' = "formatDate"
    /\ ret' = formatDate(arg)
    /\ pc' = "return"
    /\ UNCHANGED arg
    /\ UNCHANGED appVars

\* decodeBarcode up to its await on the 1500 ms timer
DecodeBarcodeCall ==
    /\ pc = "idle"
    /\ op' = "decodeBarcode"
    /\ pc' = "await"
    /\ UNCHANGED <<arg, ret>>
    /\ UNCHANGED appVars

\* the timer fires and the promise resolves
DecodeBarcodeResume ==
    /\ pc = "await"
    /\ ret' = decodeBarcode(arg)
    /\ pc' = "return"
    /\ UNCHANGED <<op, arg>>
    /\ UNCHANGED appVars

\* formatDate is applied to its own result
FormatDateAgain ==
    /\ pc = "return"
    /\ op = "formatDate"
    /\ arg' = ret
    /\ ret' = formatDate(ret)
    /\ pc' = "again"
    /\ UNCHANGED op
    /\ UNCHANGED appVars

\* postProcessData on an object that holds one field, whose value is arg
PostProcessData ==
    /\ pc = "idle"
    /\ \E key \in PostProcessedFields : ret' = postProcessData(key :> arg)
    /\ op' = "postProcessData"
    /\ pc' = "return"
    /\ UNCHANGED arg
    /\ UNCHANGED appVars

\* postProcessData is applied to the object it has rewritten
PostProcessAgain ==
    /\ pc = "return"
    /\ op = "postProcessData"
    /\ \E key \in DOMAIN ret : arg' = ret[key]
    /\ ret' = postProcessData(ret)
    /\ pc' = "again"
    /\ UNCHANGED op
    /\ UNCHANGED appVars

Next ==
    \/ ParseAAMVAData
    \/ FormatDate
    \/ FormatDateAgain
    \/ DecodeBarcodeCall
    \/ DecodeBarcodeResume
    \/ PostProcessData
    \/ PostProcessAgain

Spec == Init /\ [][Next]_vars

----------------------------------------------------------------------------
(* The customer routes: requests are served one at a time, since every     *)
(* await of a handler is on a MemStorage promise that is already resolved. *)

MaxCustomers == 3

LicenseNumbers == {<<"A", "1">>, <<"B", "2">>, <<"C", "3">>}

FirstNames == {<<"J", "o">>, <<"A", "l">>}

Value(field) == IF field = "licenseNumber" THEN LicenseNumbers ELSE FirstNames

\* the request bodies: objects that hold some of the columns
Bodies ==
    UNION { {b \in [F -> LicenseNumbers \cup FirstNames] : \A f \in F : b[f] \in Value(f)}
            : F \in SUBSET CustomerFields }

CallIdle ==
    /\ arg = <<>>
    /\ op = "none"
    /\ pc = "idle"
    /\ ret = <<>>

InitStorage ==
    /\ CallIdle
    /\ StorageInit
    /\ HomeInit(noImage, noImage)
    /\ UploadInit
    /\ CameraInit
    /\ ScannerInit
    /\ CaptureInit

\* POST /api/customers
PostCustomer(body) ==
    /\ currentCustomerId <= MaxCustomers
    /\ IF ~validInsert(body)
       THEN /\ res' = [status |-> 400, message |-> "Validation error"]
            /\ UNCHANGED <<customers, currentCustomerId>>
       ELSE IF getCustomerByLicenseNumber(body.licenseNumber) # {}
       THEN /\ res' = [status |-> 400, message |-> "License number already exists"]
            /\ UNCHANGED <<customers, currentCustomerId>>
       ELSE /\ customers' = createCustomer(body)
            /\ currentCustomerId' = currentCustomerId + 1
            /\ res' = [status |-> 201, customer |-> customers'[currentCustomerId]]
    /\ UNCHANGED <<callVars, homeVars, uploadVars, cameraVars, scannerVars, captureVars>>

\* PUT /api/customers/:id; a body of Bodies holds strings only, so
\* insertCustomerSchema.partial().parse accepts it
PutCustomer(id, body) ==
    /\ IF id \notin DOMAIN customers
       THEN /\ res' = [status |-> 404, message |-> "Customer not found"]
            /\ UNCHANGED customers
       ELSE /\ customers' = updateCustomer(id, body)
            /\ res' = [status |-> 200, customer |-> customers'[id]]
    /\ UNCHANGED <<currentCustomerId, callVars, homeVars, uploadVars, cameraVars, scannerVars, captureVars>>

NextStorage ==
    \/ \E body \in Bodies : PostCustomer(body)
    \/ \E id \in 1..MaxCustomers, body \in Bodies : PutCustomer(id, body)

SpecStorage == InitStorage /\ [][NextStorage]_vars

----------------------------------------------------------------------------
(* Home.processImages: one action for each stretch of the function between *)
(* two awaits, the state updates of a stretch being rendered together.     *)

FrontImages == {<<"f">>, <<"g">>}

BackImages == {ExampleSingle, ExampleSequential, vAB1, <<"x">>}

\* handleCameraCapture passes both images, handleFileUpload at least one
InitHome ==
    /\ CallIdle
    /\ StorageInit
    /\ UploadInit
    /\ CameraInit
    /\ ScannerInit
    /\ CaptureInit
    /\ \E front \in FrontImages \cup {noImage}, back \in BackImages \cup {noImage} :
           /\ front # noImage \/ back # noImage
           /\ HomeInit(front, back)

\* lines 125-131 and 148-149 with the form shown before step 4 is set
completeCallsFormFirst == <<"showCustomerForm", "complete", "idle">>

\* lines 125-131 and 148-149: setProcessingStep('complete'),
\* setShowCustomerForm(true), setProcessingStep('idle')
completeCalls == <<"complete", "showCustomerForm", "idle">>

\* step 4 and the finally block
Complete(barcodeData, extractedPhoto, extractedSignature, log) ==
    /\ stepLog' = log \o completeCalls
    /\ processingProgress' = 100
    /\ extractedData' = barcodeData
    /\ profilePhoto' = extractedPhoto
    /\ signature' = extractedSignature
    /\ showCustomerForm' = TRUE
    /\ toast' = "Processing complete"
    /\ isProcessing' = FALSE
    /\ processingStep' = "idle"
    /\ hpc' = "done"

\* step 3 up to its first await, or to the end when there is no front image
Extract(barcodeData, shown, log) ==
    IF frame.frontImage # noImage
    THEN /\ frame' = [frame EXCEPT !.barcodeData = barcodeData]
         /\ stepLog' = Append(log, "extracting")
         /\ processingStep' = "extracting"
         /\ processingProgress' = 70
         /\ toast' = shown
         /\ hpc' = "detectAndCropFace"
         /\ UNCHANGED <<isProcessing, extractedData, profilePhoto, signature,
                        showCustomerForm>>
    ELSE /\ frame' = [frame EXCEPT !.barcodeData = barcodeData]
         /\ Complete(barcodeData, noImage, noImage, Append(log, "extracting"))

\* the entry of processImages, up to the await on the 500 ms timer
ProcessImages ==
    /\ hpc = "call"
    /\ isProcessing' = TRUE
    /\ processingStep' = "uploading"
    /\ processingProgress' = 20
    /\ scanMode' = "none"
    /\ hpc' = "timer"
    /\ stepLog' = <<"uploading">>
    /\ UNCHANGED <<extractedData, profilePhoto, signature, showCustomerForm, toast, frame>>
    /\ UNCHANGED <<callVars, storageVars, uploadVars, cameraVars, scannerVars, captureVars>>

\* the timer fires: step 2 up to the await on decodeBarcode or, without a
\* back image, on to step 3
TimerFired ==
    /\ hpc = "timer"
    /\ IF frame.backImage # noImage
       THEN /\ processingStep' = "decoding"
            /\ processingProgress' = 40
            /\ hpc' = "decodeBarcode"
            /\ stepLog' = Append(stepLog, "decoding")
            /\ UNCHANGED <<isProcessing, extractedData, profilePhoto, signature,
                           showCustomerForm, toast, frame>>
       ELSE Extract(null, toast, Append(stepLog, "decoding"))
    /\ UNCHANGED <<scanMode, callVars, storageVars, uploadVars, cameraVars, scannerVars, captureVars>>

\* decodeBarcode resolves
DecodeBarcodeResolved ==
    /\ hpc = "decodeBarcode"
    /\ LET result == decodeBarcode(frame.backImage)
       IN  IF result.success /\ "data" \in DOMAIN result
           THEN Extract(result.data, toast, stepLog)
           ELSE Extract(null, "Barcode not detected", stepLog)
    /\ UNCHANGED <<scanMode, callVars, storageVars, uploadVars, cameraVars, scannerVars, captureVars>>

\* detectAndCropFace resolves; extractSignature is called
DetectAndCropFaceResolved ==
    /\ hpc = "detectAndCropFace"
    /\ \E faceResult \in FaceDetectionResults(frame.frontImage, "photoBox") :
           frame' = [frame EXCEPT
                        !.extractedPhoto = IF faceResult.success
                                           THEN faceResult.croppedImage
                                           ELSE noImage,
                        !.licenseState = licenseStateOf(frame.barcodeData)]
    /\ hpc' = "extractSignature"
    /\ UNCHANGED <<scanMode, isProcessing, processingStep, processingProgress,
                   extractedData, profilePhoto, signature, showCustomerForm, toast,
                   stepLog>>
    /\ UNCHANGED <<callVars, storageVars, uploadVars, cameraVars, scannerVars, captureVars>>

\* extractSignature resolves: step 4
ExtractSignatureResolved ==
    /\ hpc = "extractSignature"
    /\ \E signatureResult \in FaceDetectionResults(frame.frontImage, "signatureBox") :
           Complete(frame.barcodeData, frame.extractedPhoto,
                    IF signatureResult.success THEN signatureResult.croppedImage
                    ELSE noImage,
                    stepLog)
    /\ UNCHANGED <<scanMode, frame, callVars, storageVars, uploadVars, cameraVars, scannerVars, captureVars>>

\* the customer form, shown since step 4, reports the customer saved
HandleCustomerSaved ==
    /\ hpc = "done"
    /\ showCustomerForm
    /\ showCustomerForm' = FALSE
    /\ extractedData' = null
    /\ profilePhoto' = noImage
    /\ signature' = noImage
    /\ processingProgress' = 0
    /\ toast' = "Customer saved successfully"
    /\ hpc' = "saved"
    /\ UNCHANGED <<scanMode, isProcessing, processingStep, frame, stepLog>>
    /\ UNCHANGED <<callVars, storageVars, uploadVars, cameraVars, scannerVars, captureVars>>

NextHome ==
    \/ ProcessImages
    \/ TimerFired
    \/ DecodeBarcodeResolved
    \/ DetectAndCropFaceResolved
    \/ ExtractSignatureResolved
    \/ HandleCustomerSaved

SpecHome == InitHome /\ [][NextHome]_vars

----------------------------------------------------------------------------
(* The FileUpload widget: the handlers that write the selected files, their *)
(* previews and the error.  A file is selected by a drop or through the     *)
(* file input; its preview arrives later, when the FileReader has read it.  *)

MaxPreviews == 2

\* the files offered: each type at the size limit and one byte above it
Files ==
    [type : validTypes \cup {"image/gif"}, size : {maxSize, maxSize + 1}]

Sides == {"front", "back"}

InitUpload ==
    /\ CallIdle
    /\ StorageInit
    /\ HomeInit(noImage, noImage)
    /\ UploadInit
    /\ CameraInit
    /\ ScannerInit
    /\ CaptureInit

\* what the widget leaves alone; its toasts are those of the page
UploadFrame ==
    UNCHANGED <<callVars, storageVars, scanMode, isProcessing, processingStep,
                processingProgress, extractedData, profilePhoto, signature,
                showCustomerForm, frame, hpc, stepLog, cameraVars, scannerVars, captureVars>>

\* handleFileSelect up to its return or to the await on createPreview
HandleFileSelect(file, side) ==
    /\ validateFile(file) => Cardinality(previews) < MaxPreviews
    /\ error' = validateFileError(file)
    /\ previews' = IF validateFile(file)
                   THEN previews \cup {[file |-> file, side |-> side]}
                   ELSE previews
    /\ UNCHANGED <<frontImage, backImage, frontPreview, backPreview, toast>>
    /\ UploadFrame

\* createPreview resolves: the rest of handleFileSelect
PreviewLoaded(p) ==
    /\ p \in previews
    /\ previews' = previews \ {p}
    /\ IF p.side = "front"
       THEN /\ frontImage' = p.file
            /\ frontPreview' = createPreview(p.file)
            /\ UNCHANGED <<backImage, backPreview>>
       ELSE /\ backImage' = p.file
            /\ backPreview' = createPreview(p.file)
            /\ UNCHANGED <<frontImage, frontPreview>>
    /\ toast' = "File uploaded"
    /\ UNCHANGED error
    /\ UploadFrame

\* the Remove button under the front preview
RemoveFront ==
    /\ frontPreview # null
    /\ frontImage' = null
    /\ frontPreview' = null
    /\ UNCHANGED <<backImage, backPreview, error, previews, toast>>
    /\ UploadFrame

\* the Remove button under the back preview
RemoveBack ==
    /\ backPreview # null
    /\ backImage' = null
    /\ backPreview' = null
    /\ UNCHANGED <<frontImage, frontPreview, error, previews, toast>>
    /\ UploadFrame

HandleReset ==
    /\ frontImage' = null
    /\ backImage' = null
    /\ frontPreview' = null
    /\ backPreview' = null
    /\ error' = null
    /\ UNCHANGED <<previews, toast>>
    /\ UploadFrame

NextUpload ==
    \/ \E file \in Files, side \in Sides : HandleFileSelect(file, side)
    \/ \E p \in previews : PreviewLoaded(p)
    \/ RemoveFront
    \/ RemoveBack
    \/ HandleReset

SpecUpload == InitUpload /\ [][NextUpload]_vars

----------------------------------------------------------------------------
(* The useCamera hook under the calls of a component that holds it: one    *)
(* action for each stretch of startCamera between two awaits.  The video   *)
(* element of videoRef is mounted.  A startCamera call carries the         *)
(* currentDeviceId its closure captured (useCallback, line 116).           *)

MaxStarts == 2

MaxStreams == 2

\* the lists enumerateDevices may resolve with
DeviceLists == {<<>>, <<"cam1">>, <<"cam1", "cam2">>}

InitCamera ==
    /\ CallIdle
    /\ StorageInit
    /\ HomeInit(noImage, noImage)
    /\ UploadInit
    /\ CameraInit
    /\ ScannerInit
    /\ CaptureInit

CameraFrame == UNCHANGED <<callVars, storageVars, homeVars, uploadVars, scannerVars, captureVars>>

\* the calls in flight without call i
Without(i) == [j \in 1..(Len(starts) - 1) |-> IF j < i THEN starts[j] ELSE starts[j + 1]]

\* the entry of startCamera, up to the await on enumerateDevices
BeginStartCamera(captured) ==
    /\ Len(starts) < MaxStarts
    /\ cameraError' = null
    /\ starts' = Append(starts, [at |-> "enumerateDevices", currentDeviceId |-> captured,
                                 selectedDeviceId |-> captured])
    /\ lastCall' = "startCamera"

\* startCamera(), called by the component
StartCamera ==
    /\ BeginStartCamera(currentDeviceId)
    /\ UNCHANGED <<isActive, currentDeviceId, availableDevices, streamRef, srcObject,
                   tracks, restarts>>
    /\ CameraFrame

\* enumerateDevices resolves: lines 32-78, up to the await on getUserMedia
EnumerateDevicesResolved(i, videoDevices, selected) ==
    /\ i \in 1..Len(starts)
    /\ starts[i].at = "enumerateDevices"
    /\ selected \in selectedDeviceIds(starts[i].currentDeviceId, videoDevices)
    /\ availableDevices' = videoDevices
    /\ currentDeviceId' =
           IF selected # starts[i].currentDeviceId
              \/ (starts[i].currentDeviceId = "" /\ Len(videoDevices) > 0)
           THEN selected
           ELSE currentDeviceId
    /\ starts' = [starts EXCEPT ![i].at = "getUserMedia", ![i].selectedDeviceId = selected]
    /\ UNCHANGED <<isActive, cameraError, streamRef, srcObject, tracks, restarts, lastCall>>
    /\ CameraFrame

\* enumerateDevices or getUserMedia rejects: the catch block
StartCameraRejected(i) ==
    /\ i \in 1..Len(starts)
    /\ starts[i].at \in {"enumerateDevices", "getUserMedia"}
    /\ cameraError' = [message |-> "Failed to access camera"]
    /\ starts' = Without(i)
    /\ UNCHANGED <<isActive, currentDeviceId, availableDevices, streamRef, srcObject,
                   tracks, restarts, lastCall>>
    /\ CameraFrame

\* getUserMedia resolves with a new stream: lines 79-90, up to the await on
\* play()
GetUserMediaResolved(i) ==
    /\ i \in 1..Len(starts)
    /\ starts[i].at = "getUserMedia"
    /\ Cardinality(tracks) < MaxStreams
    /\ LET stream == CHOOSE n \in 1..(MaxStreams + 1) : n \notin tracks
       IN  /\ streamRef' = stream
           /\ srcObject' = stream
           /\ tracks' = tracks \cup {stream}
    /\ starts' = [starts EXCEPT ![i].at = "play"]
    /\ UNCHANGED <<isActive, cameraError, currentDeviceId, availableDevices, restarts,
                   lastCall>>
    /\ CameraFrame

\* play() settles either way: lines 91-106, up to the await on the metadata
PlaySettled(i) ==
    /\ i \in 1..Len(starts)
    /\ starts[i].at = "play"
    /\ starts' = [starts EXCEPT ![i].at = "loadedmetadata"]
    /\ UNCHANGED <<isActive, cameraError, currentDeviceId, availableDevices, streamRef,
                   srcObject, tracks, restarts, lastCall>>
    /\ CameraFrame

\* onloadedmetadata or the 2000 ms fallback: lines 109-110
MetadataLoaded(i) ==
    /\ i \in 1..Len(starts)
    /\ starts[i].at = "loadedmetadata"
    /\ isActive' = TRUE
    /\ starts' = Without(i)
    /\ UNCHANGED <<cameraError, currentDeviceId, availableDevices, streamRef, srcObject,
                   tracks, restarts, lastCall>>
    /\ CameraFrame

\* the body of stopCamera
stopCameraBody ==
    /\ tracks' = tracks \ {streamRef}
    /\ streamRef' = 0
    /\ srcObject' = 0
    /\ isActive' = FALSE
    /\ lastCall' = "stopCamera"

StopCamera ==
    /\ stopCameraBody
    /\ UNCHANGED <<cameraError, currentDeviceId, availableDevices, starts, restarts>>
    /\ CameraFrame

\* switchCamera, up to its 200 ms timer; the startCamera the timer will call
\* is the one switchCamera's closure holds
SwitchCamera ==
    /\ Len(availableDevices) > 1
    /\ stopCameraBody
    /\ currentDeviceId' = nextDevice(availableDevices, currentDeviceId)
    /\ restarts' = restarts \cup {currentDeviceId}
    /\ UNCHANGED <<cameraError, availableDevices, starts>>
    /\ CameraFrame

\* selectCamera, up to its 300 ms timer
SelectCamera(deviceId) ==
    /\ deviceId # currentDeviceId
    /\ stopCameraBody
    /\ currentDeviceId' = deviceId
    /\ restarts' = restarts \cup {currentDeviceId}
    /\ UNCHANGED <<cameraError, availableDevices, starts>>
    /\ CameraFrame

\* a restart timer fires: startCamera is called
RestartTimerFired(captured) ==
    /\ captured \in restarts
    /\ BeginStartCamera(captured)
    /\ restarts' = restarts \ {captured}
    /\ UNCHANGED <<isActive, currentDeviceId, availableDevices, streamRef, srcObject, tracks>>
    /\ CameraFrame

NextCamera ==
    \/ StartCamera
    \/ \E i \in 1..MaxStarts, videoDevices \in DeviceLists, selected \in {"", "cam1", "cam2"} :
           EnumerateDevicesResolved(i, videoDevices, selected)
    \/ \E i \in 1..MaxStarts : StartCameraRejected(i)
    \/ \E i \in 1..MaxStarts : GetUserMediaResolved(i)
    \/ \E i \in 1..MaxStarts : PlaySettled(i)
    \/ \E i \in 1..MaxStarts : MetadataLoaded(i)
    \/ StopCamera
    \/ SwitchCamera
    \/ \E deviceId \in {"cam1", "cam2"} : SelectCamera(deviceId)
    \/ \E captured \in restarts : RestartTimerFired(captured)

SpecCamera == InitCamera /\ [][NextCamera]_vars

----------------------------------------------------------------------------
(* The BarcodeCamera component once the camera it started on mount is      *)
(* active.  A tick of the interval runs up to its await on decodeBarcode;  *)
(* the decodes resolve in the order they were started, each on its own     *)
(* 1500 ms timer.  A tick whose captureImage returns null changes nothing. *)

MaxDecodes == 2

MaxDelivered == 2

\* the frames captureImage may return
Frames == {<<"a">>, <<"b">>}

InitScanner ==
    /\ CallIdle
    /\ StorageInit
    /\ HomeInit(noImage, noImage)
    /\ UploadInit
    /\ ScannerInit
    /\ CaptureInit
    /\ isActive = TRUE
    /\ cameraError = null
    /\ currentDeviceId = "cam1"
    /\ availableDevices = <<"cam1">>
    /\ streamRef = 1
    /\ srcObject = 1
    /\ tracks = {1}
    /\ starts = <<>>
    /\ restarts = {}
    /\ lastCall = "startCamera"

ScannerFrame == UNCHANGED <<callVars, storageVars, homeVars, uploadVars, captureVars>>

CameraUnchanged == UNCHANGED cameraVars

\* the Start Scanning button
StartBarcodeScanning ==
    /\ ~closed
    /\ scanStatus \notin {"frozen", "success"}
    /\ isActive /\ cameraError = null
    /\ ~isScanning
    /\ isScanning' = TRUE
    /\ scanStatus' = "scanning"
    /\ lastError' = null
    /\ detectedBarcodes' = <<>>
    /\ frozenFrame' = noImage
    /\ LET id == CHOOSE n \in 1..(Cardinality(intervals) + 1) : n \notin intervals
       IN  /\ scanIntervalRef' = id
           /\ intervals' = intervals \cup {id}
    /\ lastHandler' = "startBarcodeScanning"
    /\ UNCHANGED <<selectedBarcodeIndex, processingRef, decodes, delivered, closed>>
    /\ CameraUnchanged
    /\ ScannerFrame

\* an interval fires and captureImage returns a frame: lines 105-115
ScanTick(id, imageData) ==
    /\ id \in intervals
    /\ ~processingRef
    /\ Len(decodes) < MaxDecodes
    /\ processingRef' = TRUE
    /\ decodes' = Append(decodes, imageData)
    /\ UNCHANGED <<isScanning, scanStatus, lastError, frozenFrame, detectedBarcodes,
                   selectedBarcodeIndex, scanIntervalRef, intervals, delivered, closed,
                   lastHandler>>
    /\ CameraUnchanged
    /\ ScannerFrame

\* decodeBarcode resolves: lines 115-147
DecodeResolved(grayscaleImageData) ==
    /\ decodes # <<>>
    /\ grayscaleImageData \in convertTo8ColorGrayscale(Head(decodes))
    /\ LET imageData == Head(decodes)
           result == decodeBarcode(grayscaleImageData)
       IN  IF detected(result)
           THEN /\ intervals' = intervals \ {scanIntervalRef}
                /\ scanIntervalRef' = 0
                /\ isScanning' = FALSE
                /\ scanStatus' = "frozen"
                /\ frozenFrame' = imageData
                /\ detectedBarcodes' = <<barcodeEntry(result)>>
                /\ selectedBarcodeIndex' = 0
           ELSE UNCHANGED <<intervals, scanIntervalRef, isScanning, scanStatus,
                            frozenFrame, detectedBarcodes, selectedBarcodeIndex>>
    /\ processingRef' = FALSE
    /\ decodes' = Tail(decodes)
    /\ UNCHANGED <<lastError, delivered, closed, lastHandler>>
    /\ CameraUnchanged
    /\ ScannerFrame

\* the body of stopBarcodeScanning
stopBarcodeScanningBody ==
    /\ intervals' = intervals \ {scanIntervalRef}
    /\ scanIntervalRef' = 0
    /\ isScanning' = FALSE
    /\ scanStatus' = "idle"
    /\ processingRef' = FALSE

\* the Stop Scanning button
StopBarcodeScanning ==
    /\ ~closed
    /\ scanStatus # "frozen"
    /\ isScanning
    /\ stopBarcodeScanningBody
    /\ lastHandler' = "stopBarcodeScanning"
    /\ UNCHANGED <<lastError, frozenFrame, detectedBarcodes, selectedBarcodeIndex,
                   decodes, delivered, closed>>
    /\ CameraUnchanged
    /\ ScannerFrame

\* the Scan Again button
ResumeScanning ==
    /\ ~closed
    /\ scanStatus = "frozen"
    /\ frozenFrame' = noImage
    /\ detectedBarcodes' = <<>>
    /\ scanStatus' = "idle"
    /\ lastError' = null
    /\ lastHandler' = "resumeScanning"
    /\ UNCHANGED <<isScanning, selectedBarcodeIndex, scanIntervalRef, processingRef,
                   intervals, decodes, delivered, closed>>
    /\ CameraUnchanged
    /\ ScannerFrame

\* the Use This Barcode button
ConfirmBarcodeSelection ==
    /\ ~closed
    /\ scanStatus = "frozen"
    /\ Len(delivered) < MaxDelivered
    /\ delivered' =
           IF Len(detectedBarcodes) > 0 /\ selectedBarcodeIndex >= 0
           THEN Append(delivered, confirmedData(detectedBarcodes[selectedBarcodeIndex + 1]))
           ELSE delivered
    /\ lastHandler' = "confirmBarcodeSelection"
    /\ UNCHANGED <<isScanning, scanStatus, lastError, frozenFrame, detectedBarcodes,
                   selectedBarcodeIndex, scanIntervalRef, processingRef, intervals,
                   decodes, closed>>
    /\ CameraUnchanged
    /\ ScannerFrame

\* the close button: stopBarcodeScanning, stopCamera, onClose, and the
\* cleanup of the mount effect (lines 87-92)
HandleClose ==
    /\ ~closed
    /\ stopBarcodeScanningBody
    /\ stopCameraBody
    /\ closed' = TRUE
    /\ lastHandler' = "handleClose"
    /\ UNCHANGED <<lastError, frozenFrame, detectedBarcodes, selectedBarcodeIndex,
                   decodes, delivered>>
    /\ UNCHANGED <<cameraError, currentDeviceId, availableDevices, starts, restarts>>
    /\ ScannerFrame

NextScanner ==
    \/ StartBarcodeScanning
    \/ \E id \in intervals :
           \E imageData \in Frames : ScanTick(id, imageData)
    \/ \E imageData \in Frames :
           \E grayscaleImageData \in convertTo8ColorGrayscale(imageData) :
               DecodeResolved(grayscaleImageData)
    \/ StopBarcodeScanning
    \/ ResumeScanning
    \/ ConfirmBarcodeSelection
    \/ HandleClose

SpecScanner == InitScanner /\ [][NextScanner]_vars

----------------------------------------------------------------------------
(* The CameraCapture component once the camera it started on mount is      *)
(* active.  The handlers of both copies of the component are actions; the  *)
(* first copy has no countdown and its Process Images button calls         *)
(* onCapture.  A captureImage that returns null changes nothing in a       *)
(* click handler; at the end of a countdown it only ends the countdown.    *)

MaxForwarded == 2

InitCapture == InitScanner

CaptureFrame == UNCHANGED <<callVars, storageVars, homeVars, uploadVars, cameraVars, scannerVars>>

\* the camera view, with its capture button and mode buttons
cameraView == ~cameraCapture.showPreview /\ ~cameraCapture.showManualCrop

\* the preview, with Start Over, Retake and the submit button
previewView == cameraCapture.showPreview /\ ~cameraCapture.showManualCrop

\* the capture button: lines 26-38 and 515-529
HandleCapture(imageData) ==
    /\ cameraView
    /\ isActive /\ ~cameraCapture.isCountingDown
    /\ cameraCapture' = afterCapture(cameraCapture, cameraCapture.captureMode, imageData)
    /\ UNCHANGED <<countdowns, forwarded>>
    /\ CaptureFrame

\* the Front and Back buttons
SetCaptureMode(mode) ==
    /\ cameraView
    /\ mode = "back" => cameraCapture.frontImage # noImage
    /\ cameraCapture' = [cameraCapture EXCEPT !.captureMode = mode]
    /\ UNCHANGED <<countdowns, forwarded>>
    /\ CaptureFrame

\* the auto-shutter checkbox
SetAutoShutterEnabled(checked) ==
    /\ cameraView
    /\ cameraCapture' = [cameraCapture EXCEPT !.autoShutterEnabled = checked]
    /\ UNCHANGED <<countdowns, forwarded>>
    /\ CaptureFrame

\* the auto-shutter effect sees a license in the frame and calls
\* startCountdown, whose timer callback keeps the captureMode of this render
StartCountdown ==
    /\ cameraCapture.autoShutterEnabled /\ isActive
    /\ ~cameraCapture.showPreview /\ ~cameraCapture.isCountingDown
    /\ cameraCapture' = [cameraCapture EXCEPT !.isCountingDown = TRUE, !.countdown = 3]
    /\ countdowns' = countdowns \cup
                         {[captureMode |-> cameraCapture.captureMode, timer |-> "interval"]}
    /\ UNCHANGED forwarded
    /\ CaptureFrame

\* the 1000 ms interval of a countdown fires: lines 233-255
CountdownTick(t) ==
    /\ t \in countdowns /\ t.timer = "interval"
    /\ IF cameraCapture.countdown <= 1
       THEN /\ countdowns' = (countdowns \ {t}) \cup {[t EXCEPT !.timer = "timeout"]}
            /\ cameraCapture' = [cameraCapture EXCEPT !.countdown = 0]
       ELSE /\ cameraCapture' = [cameraCapture EXCEPT !.countdown = @ - 1]
            /\ UNCHANGED countdowns
    /\ UNCHANGED forwarded
    /\ CaptureFrame

\* the 100 ms timeout at the end of a countdown: lines 237-250
CountdownExpired(t, imageData) ==
    /\ t \in countdowns /\ t.timer = "timeout"
    /\ LET c == IF imageData # noImage
                THEN afterCapture(cameraCapture, t.captureMode, imageData)
                ELSE cameraCapture
       IN  cameraCapture' = [c EXCEPT !.countdown = 0, !.isCountingDown = FALSE]
    /\ countdowns' = countdowns \ {t}
    /\ UNCHANGED forwarded
    /\ CaptureFrame

\* the Retake button
HandleRetake ==
    /\ previewView
    /\ cameraCapture' = retaken(cameraCapture)
    /\ UNCHANGED <<countdowns, forwarded>>
    /\ CaptureFrame

\* the Start Over button
HandleStartOver ==
    /\ previewView
    /\ cameraCapture' = [cameraCapture EXCEPT !.frontImage = noImage, !.backImage = noImage,
                                              !.captureMode = "front", !.showPreview = FALSE]
    /\ UNCHANGED <<countdowns, forwarded>>
    /\ CaptureFrame

\* the Process Images button of the first copy: lines 48-52
HandleSubmitOnCapture ==
    /\ previewView
    /\ Len(forwarded) < MaxForwarded
    /\ forwarded' =
           IF bothImages(cameraCapture)
           THEN Append(forwarded, [to |-> "onCapture",
                                   frontImage |-> cameraCapture.frontImage,
                                   backImage |-> cameraCapture.backImage])
           ELSE forwarded
    /\ UNCHANGED <<cameraCapture, countdowns>>
    /\ CaptureFrame

\* the Manual Crop & Extract button of the second copy: lines 336-340, and
\* the render of ManualCrop with the two images, lines 355-364
HandleSubmit ==
    /\ previewView
    /\ Len(forwarded) < MaxForwarded
    /\ IF bothImages(cameraCapture)
       THEN /\ cameraCapture' = [cameraCapture EXCEPT !.showManualCrop = TRUE]
            /\ forwarded' = Append(forwarded, [to |-> "ManualCrop",
                                               frontImage |-> cameraCapture.frontImage,
                                               backImage |-> cameraCapture.backImage])
       ELSE UNCHANGED <<cameraCapture, forwarded>>
    /\ UNCHANGED countdowns
    /\ CaptureFrame

\* ManualCrop reports its crops or is closed: setShowManualCrop(false)
ManualCropDone ==
    /\ cameraCapture.showManualCrop
    /\ cameraCapture' = [cameraCapture EXCEPT !.showManualCrop = FALSE]
    /\ UNCHANGED <<countdowns, forwarded>>
    /\ CaptureFrame

NextCapture ==
    \/ \E imageData \in Frames : HandleCapture(imageData)
    \/ \E mode \in {"front", "back"} : SetCaptureMode(mode)
    \/ \E checked \in BOOLEAN : SetAutoShutterEnabled(checked)
    \/ StartCountdown
    \/ \E t \in countdowns : CountdownTick(t)
    \/ \E t \in countdowns : \E imageData \in Frames \cup {noImage} :
           CountdownExpired(t, imageData)
    \/ HandleRetake
    \/ HandleStartOver
    \/ HandleSubmitOnCapture
    \/ HandleSubmit
    \/ ManualCropDone

SpecCapture == InitCapture /\ [][NextCapture]_vars

----------------------------------------------------------------------------
(* Vocabulary of the properties *)

Returned(f) == op = f /\ pc = "return"

Digit == {"0", "1", "2", "3", "4", "5", "6", "7", "8", "9"}

AllDigits(s) == \A i \in 1..Len(s) : s[i] \in Digit

\* a known field code stands at position i of s
KnownCodeAt(s, i) ==
    i >= 1 /\ i + 2 <= Len(s) /\ SubSeq(s, i, i + 2) \in DOMAIN fieldMapping

\* some field code mapped to the field occurs in s
HasCodeFor(s, field) ==
    \E i \in 1..Len(s) : KnownCodeAt(s, i) /\ fieldMapping[SubSeq(s, i, i + 2)] = field

SingleLine(s) == \A i \in 1..Len(s) : s[i] \notin LineTerminators

DateFields == {"dateOfBirth", "expirationDate"}

\* s is one known field code followed by a one-line value that is not blank
\* and holds no field code
CodeThenValue(s) ==
    /\ KnownCodeAt(s, 1)
    /\ SingleLine(s)
    /\ trim(SubSeq(s, 4, Len(s))) # <<>>
    /\ \A i \in 2..Len(s) : ~KnownCodeAt(s, i)

----------------------------------------------------------------------------
(* C1 *)

\* C1: whenever a known field code A occurs in the payload and B is the
\* nearest known field code after it, the value parseAAMVAData holds for A's
\* field is the trimmed text between the end of A and the start of B, with
\* no line break needed between them (stated for the first code of the
\* payload, a field that is not a date, and a value that is not blank).
C1_NextCodeTerminates ==
    Returned("parseAAMVAData") =>
        \A i \in 1..Len(arg) : \A j \in (i + 3)..Len(arg) :
            ( /\ KnownCodeAt(arg, i)
              /\ KnownCodeAt(arg, j)
              /\ \A k \in 1..Len(arg) :
                     (k # i /\ k < j) => ~KnownCodeAt(arg, k)
              /\ fieldMapping[SubSeq(arg, i, i + 2)] \notin DateFields
              /\ fieldMapping[SubSeq(arg, j, j + 2)] # fieldMapping[SubSeq(arg, i, i + 2)]
              /\ trim(SubSeq(arg, i + 3, j - 1)) # <<>> )
            => /\ fieldMapping[SubSeq(arg, i, i + 2)] \in DOMAIN ret
               /\ ret[fieldMapping[SubSeq(arg, i, i + 2)]] = trim(SubSeq(arg, i + 3, j - 1))

----------------------------------------------------------------------------
(* C2 *)

ExpectedSequential ==
    [licenseNumber  |-> <<"D", "1", "2", "3", "4", "5", "6", "7", "8">>,
     lastName       |-> <<"D", "O", "E">>,
     firstName      |-> <<"J", "O", "H", "N">>,
     dateOfBirth    |-> <<"1", "9", "8", "5", "-", "0", "6", "-", "1", "5">>,
     expirationDate |-> <<"2", "0", "2", "7", "-", "0", "6", "-", "1", "5">>]

\* C2: the payload 'DLDAQD12345678DCSDOEDACJOHNDBB19850615DBA20270615', which
\* has no line break, parses to exactly licenseNumber 'D12345678', lastName
\* 'DOE', firstName 'JOHN', dateOfBirth '1985-06-15', expirationDate
\* '2027-06-15'.
C2_SequentialExample ==
    (Returned("parseAAMVAData") /\ arg = ExampleSequential) => ret = ExpectedSequential

----------------------------------------------------------------------------
(* C3 *)

\* C3: a payload that is one known field code followed by its value and no
\* other field code parses to a record with exactly that one field, and the
\* value runs to the end of the string (trimmed; a date value normalised).
C3_SingleCode ==
    (Returned("parseAAMVAData") /\ CodeThenValue(arg)) =>
        LET field == fieldMapping[SubSeq(arg, 1, 3)]
            value == trim(SubSeq(arg, 4, Len(arg)))
        IN  /\ DOMAIN ret = {field}
            /\ field \notin DateFields => ret[field] = value
            /\ (field \in DateFields /\ Len(value) # 8) => ret[field] = value

\* 'DAQABC123' has been parsed to {licenseNumber: 'ABC123'}
C3_Witness ==
    /\ Returned("parseAAMVAData")
    /\ arg = ExampleSingle
    /\ ret = [licenseNumber |-> <<"A", "B", "C", "1", "2", "3">>]

----------------------------------------------------------------------------
(* C4 *)

IsYearFirst(d) == SubSeq(d, 1, 2) \in {<<"1", "9">>, <<"2", "0">>}

\* C4: for an 8-digit string d, formatDate returns d[0..3]-d[4..5]-d[6..7]
\* when d starts with '19' or '20' and d[4..7]-d[0..1]-d[2..3] otherwise;
\* either way the result has the shape YYYY-MM-DD.
C4_EightDigits ==
    (Returned("formatDate") /\ Len(arg) = 8 /\ AllDigits(arg)) =>
        /\ Len(ret) = 10
        /\ ret[5] = DASH /\ ret[8] = DASH
        /\ \A i \in {1, 2, 3, 4, 6, 7, 9, 10} : ret[i] \in Digit
        /\ IsYearFirst(arg) =>
               /\ \A i \in 1..4 : ret[i] = arg[i]
               /\ \A i \in 1..2 : ret[5 + i] = arg[4 + i] /\ ret[8 + i] = arg[6 + i]
        /\ ~IsYearFirst(arg) =>
               /\ \A i \in 1..4 : ret[i] = arg[4 + i]
               /\ \A i \in 1..2 : ret[5 + i] = arg[i] /\ ret[8 + i] = arg[2 + i]

\* '06151985' has been normalised by the MMDDYYYY reading
C4_Witness ==
    /\ Returned("formatDate")
    /\ arg = vMDY
    /\ ret = <<"1", "9", "8", "5", "-", "0", "6", "-", "1", "5">>

----------------------------------------------------------------------------
(* C5 *)

\* C5: formatDate returns every string whose length is not 8 unchanged, and
\* a date field whose value has such a length keeps the raw (trimmed) text.
C5_PassThrough ==
    /\ (Returned("formatDate") /\ Len(arg) # 8) => ret = arg
    /\ ( /\ Returned("parseAAMVAData")
         /\ CodeThenValue(arg)
         /\ fieldMapping[SubSeq(arg, 1, 3)] \in DateFields
         /\ Len(trim(SubSeq(arg, 4, Len(arg)))) # 8 )
       => ret[fieldMapping[SubSeq(arg, 1, 3)]] = trim(SubSeq(arg, 4, Len(arg)))

\* a string longer than 8 characters has been through formatDate
C5_Witness ==
    /\ Returned("formatDate")
    /\ Len(arg) > 8
    /\ ret = arg

----------------------------------------------------------------------------
(* C6 *)

\* C6: a date value of 8 characters that are not 8 digits is passed through
\* unchanged by formatDate.
C6_MalformedEight ==
    (Returned("formatDate") /\ Len(arg) = 8 /\ ~AllDigits(arg)) => ret = arg

----------------------------------------------------------------------------
(* C7 *)

\* C7: when the input holds no field to extract (the empty string included),
\* decodeBarcode resolves with a failure: success false, a reason, no record.
C7_NothingExtractedFails ==
    (Returned("decodeBarcode") /\ \A i \in 1..Len(arg) : ~KnownCodeAt(arg, i)) =>
        /\ ret.success = FALSE
        /\ "error" \in DOMAIN ret
        /\ "data" \notin DOMAIN ret

----------------------------------------------------------------------------
(* C8 *)

\* C8: the record decodeBarcode delivers holds a field only if the input
\* holds a field code of that field.
C8_OnlyFieldsOfTheInput ==
    (Returned("decodeBarcode") /\ "data" \in DOMAIN ret) =>
        \A field \in DOMAIN ret.data : HasCodeFor(arg, field)

----------------------------------------------------------------------------
(* C9 *)

\* C9: every outcome of decodeBarcode is either a success carrying a record
\* and a confidence between 0.0 and 1.0 and no error, or a failure carrying
\* a reason and no record.
C9_Tagged ==
    Returned("decodeBarcode") =>
        \/ /\ ret.success = TRUE
           /\ DOMAIN ret = {"success", "data", "confidence"}
           /\ ret.confidence \in 0..100
        \/ /\ ret.success = FALSE
           /\ DOMAIN ret = {"success", "error"}

\* a decode has resolved with a success
C9_Witness ==
    /\ Returned("decodeBarcode")
    /\ ret.success = TRUE
    /\ "data" \in DOMAIN ret

----------------------------------------------------------------------------
(* C10 *)

\* C10: every successful decode reports confidence exactly 0.95 (95
\* hundredths).
C10_Confidence95 ==
    (Returned("decodeBarcode") /\ ret.success = TRUE) => ret.confidence = 95

----------------------------------------------------------------------------
(* C11 *)

Letters == {LowerSeq[i] : i \in 1..26} \cup {UpperSeq[i] : i \in 1..26}

Chars == Letters \cup Digit \cup {SP, LF, CR, DASH, SLASH}

IsString(s) == DOMAIN s = 1..Len(s) /\ \A i \in 1..Len(s) : s[i] \in Chars

BarcodeDataKeys == {fieldMapping[c] : c \in DOMAIN fieldMapping}

\* C11: whatever the input string, a call on the decoder or on a normalizer
\* returns a value of its type and nothing else: formatDate a string,
\* parseAAMVAData an object of strings under BarcodeData's keys,
\* postProcessData an object of strings, and decodeBarcode an outcome
\* object (a failure carrying an error string), never a thrown error.
C11_AlwaysReturns ==
    /\ Returned("formatDate") => IsString(ret)
    /\ Returned("parseAAMVAData") =>
           /\ DOMAIN ret \subseteq BarcodeDataKeys
           /\ \A k \in DOMAIN ret : IsString(ret[k])
    /\ Returned("postProcessData") => \A k \in DOMAIN ret : IsString(ret[k])
    /\ Returned("decodeBarcode") =>
           /\ ret.success \in BOOLEAN
           /\ ret.success = FALSE => ("error" \in DOMAIN ret /\ IsString(ret.error))

\* a malformed payload (a line feed, a carriage return, a space) has been
\* parsed and the call returned the empty object
C11_Witness ==
    /\ Returned("parseAAMVAData")
    /\ arg = <<LF, CR, SP>>
    /\ DOMAIN ret = {}

----------------------------------------------------------------------------
(* C15 *)

Alphanumeric == Letters \cup Digit

\* C15: a licenseNumber in a record that parseAAMVAData, decodeBarcode or
\* postProcessData hands out holds letters and digits only.
C15_LicenseNumberAlphanumeric ==
    /\ (Returned("parseAAMVAData") /\ "licenseNumber" \in DOMAIN ret) =>
           \A i \in 1..Len(ret.licenseNumber) : ret.licenseNumber[i] \in Alphanumeric
    /\ (Returned("postProcessData") /\ "licenseNumber" \in DOMAIN ret) =>
           \A i \in 1..Len(ret.licenseNumber) : ret.licenseNumber[i] \in Alphanumeric
    /\ (Returned("decodeBarcode") /\ "data" \in DOMAIN ret) =>
           \A i \in 1..Len(ret.data.licenseNumber) :
               ret.data.licenseNumber[i] \in Alphanumeric

----------------------------------------------------------------------------
(* C16 *)

\* C16: the gender normalizer uppercases the value, then returns exactly 'M'
\* for a value starting with 'M', exactly 'F' for one starting with 'F', and
\* the uppercased value otherwise.
C16_Gender ==
    (Returned("postProcessData") /\ DOMAIN ret = {"gender"}) =>
        /\ arg = <<>> => ret.gender = <<>>
        /\ arg # <<>> =>
               LET first == upperChar(arg[1])
               IN  /\ first = "M" => ret.gender = <<"M">>
                   /\ first = "F" => ret.gender = <<"F">>
                   /\ first \notin {"M", "F"} =>
                          /\ Len(ret.gender) = Len(arg)
                          /\ \A i \in 1..Len(arg) : ret.gender[i] = upperChar(arg[i])

\* the gender 'ma' has been normalised to 'M'
C16_Witness ==
    /\ Returned("postProcessData")
    /\ DOMAIN ret = {"gender"}
    /\ arg = <<"m", "a">>
    /\ ret.gender = <<"M">>

----------------------------------------------------------------------------
(* C17 *)

\* C17: a normalizer applied to its own output returns that output
\* unchanged: formatDate, and postProcessData on each field it rewrites
\* (names, dates, license number, state, zip code, gender).
C17_Idempotent ==
    pc = "again" =>
        /\ op = "formatDate" => ret = arg
        /\ op = "postProcessData" => \A k \in DOMAIN ret : ret[k] = arg

----------------------------------------------------------------------------
(* C18 *)

\* a last-name code, primary or legacy, or any other known code stands at i
CodeOrAliasAt(s, i) ==
    KnownCodeAt(s, i) \/ (i >= 1 /\ i + 2 <= Len(s) /\ SubSeq(s, i, i + 2) = cDCT)

\* the text after position i up to the next code or the end of s
RECURSIVE ValueEnd(_, _)
ValueEnd(s, k) ==
    IF k > Len(s) \/ CodeOrAliasAt(s, k) THEN k - 1 ELSE ValueEnd(s, k + 1)

\* C18: in a payload that holds DCS once and DCT once (and no other code),
\* in either order, lastName is the value found at DCS.
C18_PrimaryLastName ==
    Returned("parseAAMVAData") =>
        \A i \in 1..Len(arg) : \A j \in 1..Len(arg) :
            ( /\ i + 2 <= Len(arg) /\ SubSeq(arg, i, i + 2) = cDCS
              /\ j + 2 <= Len(arg) /\ SubSeq(arg, j, j + 2) = cDCT
              /\ \A k \in 1..Len(arg) : CodeOrAliasAt(arg, k) => k \in {i, j}
              /\ trim(SubSeq(arg, i + 3, ValueEnd(arg, i + 3))) # <<>> )
            => /\ "lastName" \in DOMAIN ret
               /\ ret.lastName = trim(SubSeq(arg, i + 3, ValueEnd(arg, i + 3)))

----------------------------------------------------------------------------
(* C19 *)

cID == <<"I", "D">>

Occurs(s, marker) == \E i \in 1..Len(s) : startsWith(SubSeq(s, i, Len(s)), marker)

From(s, marker) ==
    LET i == CHOOSE k \in 1..Len(s) :
                 /\ startsWith(SubSeq(s, k, Len(s)), marker)
                 /\ \A j \in 1..(k - 1) : ~startsWith(SubSeq(s, j, Len(s)), marker)
    IN  SubSeq(s, i, Len(s))

\* the payload of section 4.1: from the first 'DL', else from the first
\* 'ID', else the whole string
FromHeader(s) ==
    IF Occurs(s, cDL) THEN From(s, cDL)
    ELSE IF Occurs(s, cID) THEN From(s, cID)
    ELSE s

\* C19: parsing starts at the first 'DL' marker, otherwise at the first
\* 'ID' marker, otherwise at the start of the string: what stands before
\* the marker does not reach the record.
C19_StartsAtHeader ==
    Returned("parseAAMVAData") => ret = parseAAMVAData(FromHeader(arg))

----------------------------------------------------------------------------
(* C13 *)

\* C13: no two stored customers have the same licenseNumber.
C13_UniqueLicenseNumber ==
    \A i \in DOMAIN customers : \A j \in DOMAIN customers :
        customers[i].licenseNumber = customers[j].licenseNumber => i = j

----------------------------------------------------------------------------
(* C14 *)

----------------------------------------------------------------------------
(* C20 *)

Accepted(file) ==
    /\ file.type \in {"image/jpeg", "image/jpg", "image/png", "application/pdf"}
    /\ file.size <= 10 * 1024 * 1024

\* C20: a file becomes the front or the back file only if it is a JPEG, a
\* PNG or a PDF of at most 10 MB, its preview is the preview of that file,
\* and selecting a file that is not sets the error and leaves the front and
\* back files and previews as they were.
C20_UploadValidation ==
    /\ [](/\ frontImage # null => Accepted(frontImage)
          /\ backImage # null => Accepted(backImage)
          /\ \A p \in previews : Accepted(p.file))
    /\ [][\A file \in Files, side \in Sides :
              (~Accepted(file) /\ HandleFileSelect(file, side)) =>
                  /\ error' # null
                  /\ previews' = previews
                  /\ UNCHANGED <<frontImage, backImage, frontPreview, backPreview>>]_vars

\* a file was rejected while a front file of exactly 10 MB is selected
C20_Witness ==
    /\ error # null
    /\ frontImage # null
    /\ frontImage.size = 10 * 1024 * 1024
    /\ frontPreview = createPreview(frontImage)

----------------------------------------------------------------------------
(* C22 *)

\* C22: a field code whose value is empty or blank after trimming leaves no
\* entry in the record: no field of the record is the empty string.
C22_NoEmptyEntry ==
    Returned("parseAAMVAData") => \A k \in DOMAIN ret : ret[k] # <<>>

----------------------------------------------------------------------------
(* C23 *)

\* line i of the payload is a known code mapped to the field, then a value
LineFor(lines, i, field) ==
    /\ matches(lines[i])
    /\ SubSeq(lines[i], 1, 3) \in DOMAIN fieldMapping
    /\ fieldMapping[SubSeq(lines[i], 1, 3)] = field

\* C23: when a known code stands on several lines of a payload, the field
\* (a date field aside) holds the value of the first of these lines.
C23_FirstOccurrence ==
    Returned("parseAAMVAData") =>
        LET lines == split(arg)
        IN  \A i \in 1..Len(lines) : \A field \in BarcodeDataKeys \ DateFields :
                ( /\ LineFor(lines, i, field)
                  /\ \A j \in 1..(i - 1) : ~LineFor(lines, j, field) )
                => /\ field \in DOMAIN ret
                   /\ ret[field] = trim(SubSeq(lines[i], 4, Len(lines[i])))

----------------------------------------------------------------------------
(* C24 *)

\* s with every CR+LF and every other CR written as LF
RECURSIVE ToLF(_)
ToLF(s) ==
    IF s = <<>> THEN s
    ELSE IF s[1] = CR /\ Len(s) >= 2 /\ s[2] = LF THEN <<LF>> \o ToLF(SubSeq(s, 3, Len(s)))
    ELSE IF s[1] = CR THEN <<LF>> \o ToLF(Tail(s))
    ELSE <<s[1]>> \o ToLF(Tail(s))

\* C24: a payload whose lines end in CR or in CR+LF gives the record that
\* the same lines ending in LF give.
C24_CarriageReturn ==
    Returned("parseAAMVAData") => ret = parseAAMVAData(ToLF(arg))

----------------------------------------------------------------------------
(* C28 *)

\* C28: when the call made last on the hook is stopCamera, whatever
\* startCamera calls were in flight at that time, the camera is inactive:
\* isActive is false, streamRef holds no stream and no track runs.
C28_StopCameraIsFinal ==
    lastCall = "stopCamera" =>
        /\ ~isActive
        /\ streamRef = 0
        /\ tracks = {}

----------------------------------------------------------------------------
(* C26 *)

\* C26: at most one decodeBarcode call of the scanner is in flight.
C26_OneDecodeInFlight == Len(decodes) <= 1

----------------------------------------------------------------------------
(* C27 *)

\* C27: while stopBarcodeScanning is the handler called last, the scanner is
\* stopped: the status is 'idle', no frame is frozen and no barcode is
\* recorded, whatever decode completes in the meantime.
C27_StaysStopped ==
    lastHandler = "stopBarcodeScanning" =>
        /\ scanStatus = "idle"
        /\ frozenFrame = noImage
        /\ detectedBarcodes = <<>>

----------------------------------------------------------------------------
(* C21 *)

\* C21: a completed decode of a tick that found a barcode leaves no scanning
\* interval, sets the status to 'frozen' and stores the frame of that tick
\* without calling onBarcodeDetected; onBarcodeDetected is called only by
\* the confirm action, on a frozen frame, with the data of the selected
\* barcode.
C21_ConfirmOnly ==
    [][ /\ (Len(decodes') < Len(decodes) /\ decodeBarcode(Head(decodes)).success) =>
               /\ intervals' = {}
               /\ scanIntervalRef' = 0
               /\ scanStatus' = "frozen"
               /\ frozenFrame' = Head(decodes)
               /\ delivered' = delivered
        /\ delivered' # delivered =>
               /\ scanStatus = "frozen"
               /\ frozenFrame # noImage
               /\ detectedBarcodes # <<>>
               /\ lastHandler' = "confirmBarcodeSelection"
               /\ delivered' = Append(delivered,
                                      detectedBarcodes[selectedBarcodeIndex + 1].data)
      ]_vars

\* the caller has received the data of a confirmed frozen frame
C21_Witness ==
    /\ delivered # <<>>
    /\ lastHandler = "confirmBarcodeSelection"
    /\ scanStatus = "frozen"
    /\ intervals = {}

----------------------------------------------------------------------------
(* C25 *)

\* the calls of a run in the order of the pipeline
pipelineCalls == <<"uploading", "decoding", "extracting", "complete", "showCustomerForm", "idle">>

\* C25: the calls a processImages run has made on setProcessingStep are
\* 'uploading', 'decoding', 'extracting', 'complete' in that order, none
\* skipped and none repeated, and setShowCustomerForm(true) comes after
\* 'complete'; a run that has ended has made all of them, and the form is
\* shown, holding the data of the run, only once 'complete' was set.
C25_PipelineOrder ==
    /\ Len(stepLog) <= Len(pipelineCalls)
    /\ stepLog = SubSeq(pipelineCalls, 1, Len(stepLog))
    /\ hpc \in {"done", "saved"} => stepLog = pipelineCalls
    /\ showCustomerForm =>
           /\ \E i \in 1..Len(stepLog) : stepLog[i] = "complete"
           /\ extractedData = frame.barcodeData
    /\ hpc \notin {"done", "saved"} => ~showCustomerForm

\* a run with both images has ended and the form is shown
C25_Witness ==
    /\ hpc = "done"
    /\ showCustomerForm
    /\ frame.frontImage # noImage
    /\ frame.backImage # noImage
    /\ stepLog = pipelineCalls

----------------------------------------------------------------------------
(* C29 *)

\* C29: every stored customer is held under the key equal to its id and the
\* keys are 1, 2, ... up to the last id given out; a create stores the new
\* customer under the next id and leaves the others alone; an update keeps
\* the keys and the id of every customer; an update of an unknown id is
\* answered as not found and leaves the store as it was.
C29_StoreIds ==
    /\ [](/\ \A id \in DOMAIN customers : customers[id].id = id
          /\ DOMAIN customers = 1..(currentCustomerId - 1))
    /\ [][ /\ currentCustomerId' >= currentCustomerId
           /\ currentCustomerId' # currentCustomerId =>
                  /\ currentCustomerId' = currentCustomerId + 1
                  /\ DOMAIN customers' = DOMAIN customers \cup {currentCustomerId}
                  /\ customers'[currentCustomerId].id = currentCustomerId
                  /\ \A id \in DOMAIN customers : customers'[id] = customers[id]
           /\ currentCustomerId' = currentCustomerId =>
                  /\ DOMAIN customers' = DOMAIN customers
                  /\ \A id \in DOMAIN customers : customers'[id].id = customers[id].id
           /\ res'.status = 404 => customers' = customers
         ]_vars

\* two customers are stored and the second one has just been updated
C29_Witness ==
    /\ DOMAIN customers = {1, 2}
    /\ res.status = 200
    /\ res.customer.id = 2
    /\ customers[2] = res.customer

----------------------------------------------------------------------------
(* C30 *)

\* C30: the preview is shown only while the front and the back image are
\* both held, the manual crop tool is shown only then too, and every pair
\* of images handed to onCapture or to the manual crop tool has two images.
C30_PreviewNeedsBoth ==
    /\ cameraCapture.showPreview => bothImages(cameraCapture)
    /\ cameraCapture.showManualCrop => bothImages(cameraCapture)
    /\ \A i \in 1..Len(forwarded) :
           forwarded[i].frontImage # noImage /\ forwarded[i].backImage # noImage

\* a countdown took the back image after the Front button had been pressed,
\* and the images of that preview were handed to the manual crop tool
C30_Witness ==
    /\ cameraCapture.showPreview
    /\ cameraCapture.showManualCrop
    /\ cameraCapture.captureMode = "front"
    /\ forwarded # <<>>
    /\ forwarded[Len(forwarded)].to = "ManualCrop"

====
